---- MODULE Spec2Model ----
(***************************************************************************)
(* Model of the STT-Diktat-Agent session coordinator.                      *)
(*                                                                         *)
(*   app/state_machine.py   StateMachine (transition, _calculate_transition,*)
(*                          get_allowed_transitions)                       *)
(*   domain/states.py       AppState                                       *)
(*   domain/events.py       the event dataclasses                          *)
(*                                                                         *)
(* Three specifications share the variables:                               *)
(*   Spec        one caller submits arbitrary events, one whole call of    *)
(*               transition() per step;                                    *)
(*   SpecScript  one caller submits a fixed sequence of events, one whole  *)
(*               call per step;                                            *)
(*   SpecThreads several producer threads call transition() on the same    *)
(*               StateMachine, one step per statement of the method (the   *)
(*               method takes no lock).                                    *)
(***************************************************************************)
EXTENDS Integers, Sequences, FiniteSets, TLC

VARIABLES
    current_state,  \* StateMachine._current_state
    log,            \* the records the module's logger has written, in order
    last,           \* the last completed call of transition(): its event,
                    \* the state it found, its return value, the log mark
    job_seq,        \* identifier of the newest full-transcription job
    script,         \* SpecScript: the caller's fixed sequence of events
    idx,            \* SpecScript: how many events of script were submitted
    prog,           \* SpecThreads: each producer's fixed sequence of events
    pc,             \* SpecThreads: each producer's position in transition()
    done,           \* SpecThreads: number of events each producer submitted
    from_state,     \* SpecThreads: the state read at line 61, per producer
    new_state,      \* SpecThreads: local new_state, per producer
    old_state,      \* SpecThreads: local old_state, per producer
    results,        \* SpecThreads: the return values each producer received
    start_state,    \* SpecThreads: the state the StateMachine was built with
    is_ready,       \* STTService._is_ready
    model,          \* STTService.model: None or the loaded WhisperModel
    init_pc,        \* SpecSTT: position of the STTInitWorker thread
    init_result,    \* SpecSTT: the STTServiceResult of _load_and_warmup
    init_calls,     \* SpecSTT: invocations of initialize()'s callback
    jobs,           \* SpecSTT: the transcription requests and their workers
    is_running,         \* SnippetTrackerService.is_running
    is_paused,          \* SnippetTrackerService.is_paused
    cumulative_time,    \* SnippetTrackerService.cumulative_time, in ticks
    snippet_triggered,  \* SnippetTrackerService.snippet_triggered
    stop_event,         \* SnippetTrackerService._stop_event is set
    lock,               \* SnippetTrackerService._lock: 0 or the worker holding it
    workers,            \* position of each SnippetTrackerWorker thread
    background_thread,  \* SnippetTrackerService.background_thread: 0 or a worker
    ctrl_pc,            \* position of the thread calling start/pause/resume/stop
    fires,              \* calls of _transcribe_snippet since the last start()
    dispatched,         \* calls of stt_service.transcribe_snippet since then
    errors,             \* "STT nicht bereit" snippet callbacks since then
    paused_early,       \* pause() took effect below the threshold since then
    join_timed_out,     \* the join of the latest stop() returned on its timeout
    stop_log,           \* the log records written by the latest stop()
    snippet_audio,      \* the provider's answer and the audio of the latest dispatch
    reports,            \* the arguments of the worker's own snippet_callback calls
    stream,         \* RecordingService._stream: None, or the stream's state
    chunks,         \* RecordingService._chunks, since the last start()
    appended,       \* SpecRecording: number of capture callbacks so far
    snap,           \* SpecRecording: the latest get_full / get_snippet call
    doctor_pc,      \* SpecDoctor: position of the Doctor worker thread
    doctor_trace,   \* SpecDoctor: the checks this run has executed, in order
    doctor_result,  \* SpecDoctor: the DoctorCheckResult of _perform_checks
    doctor_calls,   \* SpecDoctor: invocations of run_checks()'s callback
    doctor_runs,    \* SpecDoctor: number of run_checks() calls
    config_device,  \* audio.device as stored in config.toml
    config_writes   \* SpecDoctor: writes of config.toml made by the worker

smVars     == <<current_state, log, last, job_seq>>
scriptVars == <<script, idx>>
threadVars == <<prog, pc, done, from_state, new_state, old_state, results, start_state>>
sttVars    == <<is_ready, model, init_pc, init_result, init_calls, jobs>>
trackerVars == <<is_running, is_paused, cumulative_time, snippet_triggered,
                 stop_event, lock, workers, background_thread, ctrl_pc,
                 fires, dispatched, errors, paused_early, join_timed_out,
                 stop_log, snippet_audio, reports>>
recVars    == <<stream, chunks, appended, snap>>
doctorVars == <<doctor_pc, doctor_trace, doctor_result, doctor_calls, doctor_runs,
                config_device, config_writes>>
serviceVars == <<sttVars, trackerVars, recVars, doctorVars>>
notSTTVars == <<scriptVars, threadVars, trackerVars, recVars, doctorVars>>
notTrackerVars == <<scriptVars, threadVars, recVars, doctorVars>>
notRecVars == <<scriptVars, threadVars, sttVars, trackerVars, doctorVars>>
notDoctorVars == <<scriptVars, threadVars, sttVars, trackerVars, recVars>>
vars       == <<smVars, scriptVars, threadVars, serviceVars>>

----------------------------------------------------------------------------
(* Bounds of the model.                                                    *)

\* Spec stops submitting when the log holds this many records.
MaxLog == 6
\* job identifiers carried by FullSTTDone / FullSTTFail events
MaxJobId == 2
\* SpecScript: length of the caller's fixed sequence
ScriptLen == 6
\* SpecThreads: number of producer threads and events per producer
NumThreads == 2
MaxSeq == 1
\* SpecSTT: number of transcription requests made of the STTService
MaxJobs == 2
\* SpecTracker: number of recording episodes (start() calls that take effect)
MaxEpisodes == 2
\* SpecRecording: number of capture callbacks, frames per callback, the
\* samplerate of the configuration and the seconds asked of get_snippet
MaxChunks == 3
MaxFrames == 2
Samplerate == 2
MaxSeconds == 2
\* SpecDoctor: number of run_checks() calls
MaxRuns == 3
\* SpecTracker: largest number of samples the audio provider returns
MaxSnapshot == 1

----------------------------------------------------------------------------
(* domain/states.py                                                        *)

AppState == {"INIT", "READY", "RECORDING", "PAUSED", "PROCESSING", "DONE", "ERROR"}

\* Python's None, the "blocked" return value
None == "None"

----------------------------------------------------------------------------
(* domain/events.py: frozen dataclasses; kind is the class name.           *)

KeyF9Pressed  == [kind |-> "KeyF9Pressed"]
KeyF10Pressed == [kind |-> "KeyF10Pressed"]
KeyF8Pressed  == [kind |-> "KeyF8Pressed"]
KeyF2Pressed  == [kind |-> "KeyF2Pressed"]
QuitRequested == [kind |-> "QuitRequested"]

FullSTTDone(job) ==
    [kind |-> "FullSTTDone", transcript |-> "transcript text", job_id |-> job]

FullSTTFail(job) ==
    [kind |-> "FullSTTFail", error_code |-> "X", error_hint |-> "hint", job_id |-> job]

DoctorCompleted(ok) ==
    [kind |-> "DoctorCompleted", success |-> ok]

AudioLevelUpdated == [kind |-> "AudioLevelUpdated", level |-> 1, thread_id |-> 1]

JobIds == 1..MaxJobId

\* the events a caller may submit
Events ==
    {KeyF9Pressed, KeyF10Pressed, KeyF8Pressed, KeyF2Pressed, QuitRequested,
     AudioLevelUpdated}
    \cup {FullSTTDone(j) : j \in JobIds}
    \cup {FullSTTFail(j) : j \in JobIds}
    \cup {DoctorCompleted(b) : b \in BOOLEAN}

\* the class names of the events
EventKinds == {e.kind : e \in Events}

\* the classes _calculate_transition dispatches on (its isinstance chain)
KnownKinds ==
    {"KeyF9Pressed", "KeyF10Pressed", "KeyF8Pressed", "KeyF2Pressed",
     "DoctorCompleted", "FullSTTDone", "FullSTTFail"}

----------------------------------------------------------------------------
(* app/state_machine.py                                                    *)

\* lines 92-102: the KeyF9Pressed branch
F9Transition(from) ==
    CASE from = "READY"     -> "RECORDING"
      [] from = "RECORDING" -> "PAUSED"
      [] from = "PAUSED"    -> "RECORDING"
      [] from = "DONE"      -> "RECORDING"
      [] OTHER              -> None

\* F10Transition without its PAUSED/RECORDING distinction lost: only a
\* paused recording can be stopped
F10TransitionPausedOnly(from) ==
    IF from = "PAUSED" THEN "PROCESSING" ELSE None

\* lines 105-111: the KeyF10Pressed branch
F10Transition(from) ==
    CASE from = "RECORDING" -> "PROCESSING"
      [] from = "PAUSED"    -> "PROCESSING"
      [] OTHER              -> None

\* F8Transition without its DONE case: Redo is never accepted
F8TransitionNoRedo(from) == None

\* lines 114-118: the KeyF8Pressed branch
F8Transition(from) ==
    IF from = "DONE" THEN "PROCESSING" ELSE None

\* F2Transition without its ERROR case: no way out of ERROR
F2TransitionNotFromError(from) ==
    IF from \in {"READY", "DONE"} THEN "INIT" ELSE None

\* F2Transition without its state guard: preflight is accepted anywhere
F2TransitionAnyState(from) == "INIT"

\* lines 121-125: the KeyF2Pressed branch
F2Transition(from) ==
    IF from \in {"READY", "DONE", "ERROR"} THEN "INIT" ELSE None

\* lines 128-135: the DoctorCompleted branch
DoctorTransition(from, event) ==
    IF from = "INIT"
    THEN (IF event.success THEN "READY" ELSE "ERROR")
    ELSE None

\* lines 138-142: the FullSTTDone branch; event.job_id is not read
FullSTTDoneTransition(from) ==
    IF from = "PROCESSING" THEN "DONE" ELSE None

\* lines 145-149: the FullSTTFail branch; event.job_id is not read
FullSTTFailTransition(from) ==
    IF from = "PROCESSING" THEN "ERROR" ELSE None

\* StateMachine._calculate_transition, lines 74-153: the isinstance chain;
\* an event of any other class falls through to line 153
CalculateTransition(from, event) ==
    CASE event.kind = "KeyF9Pressed"    -> F9Transition(from)
      [] event.kind = "KeyF10Pressed"   -> F10Transition(from)
      [] event.kind = "KeyF8Pressed"    -> F8Transition(from)
      [] event.kind = "KeyF2Pressed"    -> F2Transition(from)
      [] event.kind = "DoctorCompleted" -> DoctorTransition(from, event)
      [] event.kind = "FullSTTDone"     -> FullSTTDoneTransition(from)
      [] event.kind = "FullSTTFail"     -> FullSTTFailTransition(from)
      [] OTHER                          -> None

\* A log record: level, message, and the values formatted into the message.
LogRecord(level, msg, old, kind, new) ==
    [level |-> level, msg |-> msg, old |-> old, kind |-> kind, new |-> new]

\* line 44: logger.info("StateMachine initialized with state: ...")
InitRecord(state) ==
    LogRecord("INFO", "StateMachine initialized with state", state, "-", "-")

\* UnknownRecords without the warning of line 152
UnknownRecordsSilent(event) == <<>>

\* lines 151-152: the warning _calculate_transition writes when no isinstance
\* branch matched
UnknownRecords(event) ==
    IF event.kind \in KnownKinds
    THEN <<>>
    ELSE <<LogRecord("WARNING", "Unknown event type", "-", event.kind, "-")>>

\* lines 64-66: the warning of a blocked transition; state is
\* self._current_state as read when the message is formatted
BlockedRecord(state, event) ==
    LogRecord("WARNING", "Invalid transition blocked", state, event.kind, "(blocked)")

\* TransitionRecord that also formats the event's payload into the message
TransitionRecordWithPayload(old, event, new) ==
    LogRecord("INFO", "State transition", old, event.kind,
              IF event.kind = "FullSTTDone" THEN event.transcript ELSE new)

\* line 71: the record of a state change
TransitionRecord(old, event, new) ==
    LogRecord("INFO", "State transition", old, event.kind, new)

\* StateAfter with a blocked transition treated as a failure of the session
StateAfterBlockedIsError(state, new) == IF new = None THEN "ERROR" ELSE new

\* StateAfter without the early return of lines 63-67: None is stored
StateAfterStoresNone(state, new) == new

\* The state transition() leaves in _current_state, lines 63-70
StateAfter(state, new) == IF new = None THEN state ELSE new

\* The records one whole call of transition() appends, lines 61-71
CallRecords(state, event, new) ==
    UnknownRecords(event)
    \o <<IF new = None
         THEN BlockedRecord(state, event)
         ELSE TransitionRecord(state, event, new)>>

\* The caller's job bookkeeping: entering PROCESSING starts a new
\* full-transcription job with the next identifier.
IssueJob(seq, new) == IF new = "PROCESSING" THEN seq + 1 ELSE seq

\* One whole call of StateMachine.transition(event), lines 51-72
Transition(event) ==
    LET new == CalculateTransition(current_state, event) IN
    /\ current_state' = StateAfter(current_state, new)
    /\ log' = log \o CallRecords(current_state, event, new)
    /\ last' = [called |-> TRUE, event |-> event, old |-> current_state,
                ret |-> new, mark |-> Len(log)]
    /\ job_seq' = IssueJob(job_seq, new)

\* StateMachine.get_allowed_transitions(state), lines 155-186
GetAllowedTransitions(state) ==
    CASE state = "INIT"       -> <<"DoctorCompleted">>
      [] state = "READY"      -> <<"KeyF9Pressed", "KeyF2Pressed", "QuitRequested">>
      [] state = "RECORDING"  -> <<"KeyF9Pressed", "KeyF10Pressed", "QuitRequested">>
      [] state = "PAUSED"     -> <<"KeyF9Pressed", "KeyF10Pressed", "QuitRequested">>
      [] state = "PROCESSING" -> <<"FullSTTDone", "FullSTTFail", "QuitRequested">>
      [] state = "DONE"       -> <<"KeyF9Pressed", "KeyF8Pressed", "KeyF2Pressed",
                                   "QuitRequested">>
      [] state = "ERROR"      -> <<"KeyF2Pressed", "QuitRequested">>
      [] OTHER                -> <<>>

----------------------------------------------------------------------------
(* Initial values.                                                         *)

NoCall == [called |-> FALSE, event |-> [kind |-> "-"], old |-> "-", ret |-> None,
           mark |-> 0]

Threads == 1..NumThreads

\* StateMachine.__init__(initial_state), lines 36-44
InitSM(state) ==
    /\ current_state = state
    /\ log = <<InitRecord(state)>>
    /\ last = NoCall
    /\ job_seq = 0

InitNoScript ==
    /\ script = <<>>
    /\ idx = 0

InitNoThreads ==
    /\ prog = [t \in Threads |-> <<>>]
    /\ pc = [t \in Threads |-> "idle"]
    /\ done = [t \in Threads |-> 0]
    /\ from_state = [t \in Threads |-> "-"]
    /\ new_state = [t \in Threads |-> "-"]
    /\ old_state = [t \in Threads |-> "-"]
    /\ results = [t \in Threads |-> <<>>]
    /\ start_state = "INIT"

----------------------------------------------------------------------------
(* The services and the StateMachine.                                      *)

\* a service step that puts the session into ERROR by itself
SessionForcedToError ==
    /\ current_state' = "ERROR"
    /\ UNCHANGED <<log, last, job_seq>>

\* What a step of a service (Doctor, Recording, SnippetTracker, STT) does to
\* the StateMachine: nothing.  No service module imports or receives the
\* StateMachine; results leave a worker only through the callback.
SessionUntouched == UNCHANGED smVars

----------------------------------------------------------------------------
(* STTService (src/services/stt_service.py): results and internal calls.   *)

\* the transcription requests the model follows
JobNums == 1..MaxJobs

\* audio_data as the caller passes it: None, an empty array, a valid array
AudioInputs == {"None", "empty", "valid"}

\* what model.transcribe() does when it is called: the engine is a black box
EngineOutcomes == {"returns", "raises", "raises_bare"}

\* the job_id arguments of transcribe_full (strings, line 287)
FullJobIds == {"job-a", "job-b"}

\* the exception of model.transcribe(): one raised with a message, one
\* raised without arguments, as in "raise MemoryError()" or a failed assert
ExceptionOf(engine) ==
    IF engine = "raises"
    THEN [type_name |-> "RuntimeError", str |-> "model failure"]
    ELSE [type_name |-> "MemoryError", str |-> ""]

\* no result yet
NoResult == [success |-> FALSE, error_code |-> "-", error_hint |-> "-", job_id |-> ""]

\* STTServiceResult of _load_and_warmup, lines 176, 181, 185
STTServiceResult(success, hint) ==
    [success |-> success, error_code |-> None, error_hint |-> hint, job_id |-> ""]

\* FullTranscriptionResult(success=False, STT_NOT_READY), lines 315-320, 354-359
FullNotReady(job) ==
    [success |-> FALSE, error_code |-> "STT_NOT_READY",
     error_hint |-> "STT nicht bereit", job_id |-> job]

\* FullTranscriptionResult(success=False, AUDIO_INVALID), lines 363-368
FullAudioInvalid(job) ==
    [success |-> FALSE, error_code |-> "AUDIO_INVALID",
     error_hint |-> "Audio-Daten ungueltig", job_id |-> job]

\* the except branch without the job identifier
FullEngineErrorNoJobId(job, engine) ==
    [success |-> FALSE, error_code |-> ExceptionOf(engine).type_name,
     error_hint |-> ExceptionOf(engine).str, job_id |-> ""]

\* FullTranscriptionResult of the except branch, lines 392-402
FullEngineError(job, engine) ==
    [success |-> FALSE, error_code |-> ExceptionOf(engine).type_name,
     error_hint |-> ExceptionOf(engine).str, job_id |-> job]

\* FullTranscriptionResult(success=True), lines 387-391
FullSuccess(job) ==
    [success |-> TRUE, error_code |-> None, error_hint |-> None, job_id |-> job]

\* SnippetTranscriptionResult(success=False, "STT nicht bereit"), lines 420-426
SnippetNotReady ==
    [success |-> FALSE, error_code |-> None,
     error_hint |-> "STT nicht bereit", job_id |-> ""]

\* SnippetTranscriptionResult(success=False, invalid audio), lines 430-436
SnippetAudioInvalid ==
    [success |-> FALSE, error_code |-> None,
     error_hint |-> "Audio-Daten ungueltig", job_id |-> ""]

\* SnippetTranscriptionResult of the except branch, lines 480-489
SnippetEngineError ==
    [success |-> FALSE, error_code |-> None,
     error_hint |-> "STT-Fehler: RuntimeError", job_id |-> ""]

\* SnippetTranscriptionResult(success=True), lines 474-478
SnippetSuccess ==
    [success |-> TRUE, error_code |-> None, error_hint |-> None, job_id |-> ""]

\* the readiness test of lines 314, 353 and 420
NotReady(ready, mdl) == ~ready \/ mdl = None

\* does the internal call reach model.transcribe()? (lines 362-373, 430-447)
ReachesEngine(ready, mdl, audio) ==
    ~NotReady(ready, mdl) /\ audio = "valid"

\* _transcribe_full_internal(audio_data, job_id), lines 336-402
TranscribeFullInternal(ready, mdl, audio, job, engine) ==
    IF NotReady(ready, mdl) THEN FullNotReady(job)
    ELSE IF audio \in {"None", "empty"} THEN FullAudioInvalid(job)
    ELSE IF engine # "returns" THEN FullEngineError(job, engine)
    ELSE FullSuccess(job)

\* _transcribe_snippet_internal(audio_data), lines 404-489
TranscribeSnippetInternal(ready, mdl, audio, engine) ==
    IF NotReady(ready, mdl) THEN SnippetNotReady
    ELSE IF audio \in {"None", "empty"} THEN SnippetAudioInvalid
    ELSE IF engine # "returns" THEN SnippetEngineError
    ELSE SnippetSuccess

\* where transcribe_full sends its new thread without the test of line 314
FullWorkerEntryNoReadyTest(ready, mdl) == "start"

\* where transcribe_full sends its new thread: lines 314-327 (the thread only
\* delivers the STT_NOT_READY result) or lines 329-334 (_run_full_transcription)
FullWorkerEntry(ready, mdl) ==
    IF NotReady(ready, mdl) THEN "not_ready_callback" ELSE "start"

\* the first statement of a worker, lines 261-264 and 303-306: the log
\* message evaluates len(audio_data), which raises TypeError on None
AfterStartLog(audio) == IF audio = "None" THEN "crashed" ELSE "internal"

\* a request not made yet
NoJob ==
    [op |-> "-", audio |-> "-", job_id |-> "", pc |-> "unissued", ready_at_call |-> FALSE,
     thread_started |-> FALSE, found_not_ready |-> FALSE, engine_called |-> FALSE,
     result |-> NoResult, calls |-> 0, calls_in_call |-> 0]

\* _is_ready set although _warmup() raised
ReadyDespiteWarmup(ready, warm) == TRUE

\* _load_and_warmup, lines 172-175: _is_ready = True is reached only when
\* _warmup() returned; an exception leaves the attribute as it was
ReadyAfterWarmup(ready, warm) == ready \/ warm

\* STTService.__init__, lines 98-100, and no request made
InitSTT ==
    /\ is_ready = FALSE
    /\ model = None
    /\ init_pc = "idle"
    /\ init_result = NoResult
    /\ init_calls = 0
    /\ jobs = [j \in JobNums |-> NoJob]

----------------------------------------------------------------------------
(* SnippetTrackerService (src/services/snippet_tracker_service.py).        *)

\* The first tick at which cumulative_time >= threshold_seconds holds with
\* threshold_seconds = 8.0 (line 41) and check_interval = 0.1 (line 161):
\* in binary floating point 80 additions of 0.1 give 7.999999999999988 and
\* the 81st gives 8.099999999999987.
ThresholdTicks == 81

\* the SnippetTrackerWorker threads, one per start() that takes effect
WorkerIds == 1..MaxEpisodes

\* line 176: self.cumulative_time >= self.threshold_seconds
ReachedThreshold(ticks) == ticks >= ThresholdTicks

\* line 172 without the test of snippet_triggered
AccumulatesAfterTrigger(paused, triggered) == ~paused

\* line 172 without the test of is_paused
AccumulatesWhilePaused(paused, triggered) == ~triggered

\* line 172: if not self.is_paused and not self.snippet_triggered
Accumulates(paused, triggered) == ~paused /\ ~triggered

\* the worker's tick without the test of lines 168-169
TickNeverBreaks(running) == FALSE

\* lines 168-169: if not self.is_running: break
TickBreaks(running) == ~running

\* stop() that leaves the fired flag as it is
StoppedFieldsKeepFired ==
    [is_paused |-> FALSE, cumulative_time |-> 0,
     snippet_triggered |-> snippet_triggered]

\* lines 142-145: the fields stop() resets after the join
StoppedFields ==
    [is_paused |-> FALSE, cumulative_time |-> 0, snippet_triggered |-> FALSE]

\* Snippet length of the tracker (threshold_seconds, line 41) and the sample
\* rate of the synthetic audio (line 225)
ThresholdSeconds == 8
FakeAudioRate == 16000

\* what get_audio_for_snippet gives, lines 215-220: no provider is set, the
\* call raises, or it returns None or a buffer of so many samples
ProviderOutcomes ==
    {[kind |-> k, samples |-> 0] : k \in {"unset", "raises", "None"}}
    \cup {[kind |-> "buffer", samples |-> n] : n \in 0..MaxSnapshot}

\* the provider's buffer is taken whatever it is
SnippetAudioNoFallback(provider) ==
    [kind |-> "snapshot", samples |-> provider.samples]

\* lines 214-227: the audio handed to transcribe_snippet
SnippetAudio(provider) ==
    IF provider.kind = "buffer" /\ provider.samples > 0
    THEN [kind |-> "snapshot", samples |-> provider.samples]
    ELSE [kind |-> "synthetic", samples |-> ThresholdSeconds * FakeAudioRate]

\* the error callback without its hint
NotReadyReportNoHint ==
    [transcript |-> "", quality |-> "Fehler", error |-> None]

\* lines 206-211: snippet_callback("", "Qualitaet: Fehler", thread_id, error_hint)
\* with error_hint = "STT nicht bereit" (line 200)
NotReadyReport ==
    [transcript |-> "", quality |-> "Fehler", error |-> "STT nicht bereit"]

\* nothing dispatched in this episode
NoSnippetAudio ==
    [provider |-> [kind |-> "unset", samples |-> 0],
     audio |-> [kind |-> "none", samples |-> 0]]

\* start() that starts a new episode whatever is_running is
StartAlwaysStarts(running) == FALSE

\* lines 73-75: if self.is_running: return
StartIsNoOp(running) == running

\* pause() without the test of is_running
PauseAppliesWhenStopped(running, paused) == ~paused

\* lines 99-105: pause() goes on when running and not paused
PauseApplies(running, paused) == running /\ ~paused

\* lines 115-121: resume() goes on when running and paused
ResumeApplies(running, paused) == running /\ paused

\* SnippetTrackerService.__init__, lines 53-68
InitTracker ==
    /\ is_running = FALSE
    /\ is_paused = FALSE
    /\ cumulative_time = 0
    /\ snippet_triggered = FALSE
    /\ stop_event = FALSE
    /\ lock = 0
    /\ workers = [w \in WorkerIds |-> "none"]
    /\ background_thread = 0
    /\ ctrl_pc = "idle"
    /\ fires = 0
    /\ dispatched = 0
    /\ errors = 0
    /\ paused_early = FALSE
    /\ join_timed_out = FALSE
    /\ stop_log = <<>>
    /\ snippet_audio = NoSnippetAudio
    /\ reports = <<>>

----------------------------------------------------------------------------
(* RecordingService (src/services/recording_service.py).                   *)

\* np.concatenate(self._chunks): the samples of all chunks, in append order
RECURSIVE Concatenate(_)
Concatenate(cs) ==
    IF cs = <<>> THEN <<>> ELSE Concatenate(SubSeq(cs, 1, Len(cs) - 1)) \o cs[Len(cs)]

\* number of samples in the chunks cs
SamplesIn(cs) == Len(Concatenate(cs))

\* the samples are numbered in capture order over the life of the service,
\* so that every captured sample is distinct: the k-th captured chunk
\* starts at this number
FirstSampleOf(k) == (k - 1) * MaxFrames + 1

\* start() that keeps the buffer of the previous episode
StartedBufferKept(cs) == cs

\* start(), lines 50-51: self._chunks = []
StartedBuffer(cs) == <<>>

\* indata.copy().flatten(), line 72: a chunk of the given number of frames
NewChunk(first, frames) == [i \in 1..frames |-> first + i - 1]

\* buf[start:] of Python for a start <= 0: -0 is 0, so buf[-0:] is all of buf
PySliceFrom(buf, start) ==
    IF start = 0 THEN buf
    ELSE IF -start >= Len(buf) THEN buf
    ELSE SubSeq(buf, Len(buf) + start + 1, Len(buf))

\* get_snippet(seconds), lines 122-131, on the chunks read under the lock
GetSnippetResult(cs, seconds) ==
    LET buf == Concatenate(cs)
        n   == seconds * Samplerate
    IN  IF cs = <<>> THEN <<>>
        ELSE IF Len(buf) <= n THEN buf
        ELSE PySliceFrom(buf, -n)

\* get_full(), lines 133-138, on the chunks read under the lock
GetFullResult(cs) == IF cs = <<>> THEN <<>> ELSE Concatenate(cs)

\* no snapshot taken since the last start()
NoSnap == [op |-> "-", seconds |-> 0, result |-> <<>>, upto |-> 0]

\* RecordingService.__init__, lines 38-46
InitRecording ==
    /\ stream = None
    /\ chunks = <<>>
    /\ appended = 0
    /\ snap = NoSnap

----------------------------------------------------------------------------
(* DoctorService (src/services/doctor_service.py).                         *)

\* the order in which _perform_checks runs its checks, lines 100-130
CheckOrder == <<"paths", "requirements", "model", "mic">>

\* audio.device values: "" (default device) or the name of a device
DeviceNames == {"", "USB Mic"}

\* what check_microphone returns, audio_capture.py lines 19-135: no working
\* device, or the identifier of the first device that works
MicOutcomes == {[ok |-> FALSE, device |-> None]}
               \cup {[ok |-> TRUE, device |-> d] : d \in DeviceNames}

\* no result yet
NoDoctorResult ==
    [success |-> FALSE, error_code |-> "-", error_hint |-> "-",
     mic_ok |-> FALSE, model_ok |-> FALSE]

\* DoctorCheckResult(success=False, ...), lines 103-109, 121-127, 136-142
DoctorFailure(code, hint, mic, mdl) ==
    [success |-> FALSE, error_code |-> code, error_hint |-> hint,
     mic_ok |-> mic, model_ok |-> mdl]

\* DoctorCheckResult(success=True, mic_ok=True, model_ok=True), lines 145-149
DoctorSuccess ==
    [success |-> TRUE, error_code |-> None, error_hint |-> None,
     mic_ok |-> TRUE, model_ok |-> TRUE]

\* what a check leads to: the next position and the result, if it ends the run
GoOn(next) == [next |-> next, result |-> NoDoctorResult]
EndWith(result) == [next |-> "callback", result |-> result]

\* check 1, lines 101-109
PathsStep(ok) ==
    IF ok THEN GoOn("requirements")
    ELSE EndWith(DoctorFailure("PATH_NOT_WRITABLE", "Cannot write to directory",
                               FALSE, FALSE))

\* check 2 as a hard check
RequirementsStepHard(ok) ==
    IF ok THEN GoOn("model")
    ELSE EndWith(DoctorFailure("REQUIREMENTS_MISSING", "requirements.lock.txt not found",
                               FALSE, FALSE))

\* check 2, lines 112-115: informational only
RequirementsStep(ok) == GoOn("model")

\* check 3, lines 118-127
ModelStep(ok) ==
    IF ok THEN GoOn("mic")
    ELSE EndWith(DoctorFailure("MODEL_NOT_LOADABLE", "Cannot load STT model",
                               TRUE, FALSE))

\* check 4, lines 130-149
MicStep(ok) ==
    IF ok THEN EndWith(DoctorSuccess)
    ELSE EndWith(DoctorFailure("MIC_NOT_AVAILABLE", "No working microphone device found",
                               FALSE, TRUE))

\* _check_microphone, lines 283-288: is config.toml rewritten?
SavesDevice(mic, stored) == mic.ok /\ mic.device # None /\ mic.device # stored

\* DoctorService.__init__, lines 61-62, and the configuration as loaded
InitDoctor ==
    /\ doctor_pc = "idle"
    /\ doctor_trace = <<>>
    /\ doctor_result = NoDoctorResult
    /\ doctor_calls = 0
    /\ doctor_runs = 0
    /\ config_device = ""
    /\ config_writes = 0

\* the services are built and not used
InitNoServices == InitSTT /\ InitTracker /\ InitRecording /\ InitDoctor

----------------------------------------------------------------------------
(* Spec: one caller, arbitrary events.                                     *)

Init ==
    /\ InitSM("INIT")
    /\ InitNoScript
    /\ InitNoThreads
    /\ InitNoServices

Submit ==
    /\ Len(log) < MaxLog
    /\ \E e \in Events : Transition(e)
    /\ UNCHANGED <<scriptVars, threadVars, serviceVars>>

Next == Submit

Spec == Init /\ [][Next]_vars

----------------------------------------------------------------------------
(* SpecScript: one caller submits a fixed sequence of events, each by one  *)
(* whole call of transition().                                             *)

\* the events the fixed sequences are made of: those of a session with a
\* redo, whose first job reports success and whose second job reports failure
ScriptEvents ==
    {DoctorCompleted(TRUE), KeyF9Pressed, KeyF10Pressed, KeyF8Pressed,
     FullSTTDone(1), FullSTTFail(2)}

InitScript ==
    /\ InitSM("INIT")
    /\ script \in [1..ScriptLen -> ScriptEvents]
    /\ idx = 0
    /\ InitNoThreads
    /\ InitNoServices

SubmitNext ==
    /\ idx < Len(script)
    /\ Transition(script[idx + 1])
    /\ idx' = idx + 1
    /\ UNCHANGED <<script, threadVars, serviceVars>>

NextScript == SubmitNext

SpecScript == InitScript /\ [][NextScript]_vars

----------------------------------------------------------------------------
(* SpecThreads: producer threads call transition() on one StateMachine.    *)
(* The method holds no lock, so a thread switch can fall between any two   *)
(* of its statements; each action below is one statement of lines 61-72.   *)

\* the fixed sequences a producer may be given
Programs == UNION {[1..n -> Events] : n \in 0..MaxSeq}

InitThreads ==
    /\ \E s \in AppState : InitSM(s) /\ start_state = s
    /\ InitNoScript
    /\ prog \in [Threads -> Programs]
    /\ pc = [t \in Threads |-> "idle"]
    /\ done = [t \in Threads |-> 0]
    /\ from_state = [t \in Threads |-> "-"]
    /\ new_state = [t \in Threads |-> "-"]
    /\ old_state = [t \in Threads |-> "-"]
    /\ results = [t \in Threads |-> <<>>]
    /\ InitNoServices

\* the event producer t is submitting
CurEvent(t) == prog[t][done[t] + 1]

\* line 61: new_state = self._calculate_transition(self._current_state, event)
T_Calculate(t) ==
    /\ pc[t] = "idle"
    /\ done[t] < Len(prog[t])
    /\ from_state' = [from_state EXCEPT ![t] = current_state]
    /\ new_state' = [new_state EXCEPT ![t] = CalculateTransition(current_state, CurEvent(t))]
    /\ log' = log \o UnknownRecords(CurEvent(t))
    /\ pc' = [pc EXCEPT ![t] = "check"]
    /\ UNCHANGED <<current_state, last, job_seq, scriptVars, serviceVars, prog, done, old_state,
                   results, start_state>>

\* lines 63-67: the blocked branch; the warning formats self._current_state
T_Blocked(t) ==
    /\ pc[t] = "check"
    /\ new_state[t] = None
    /\ log' = Append(log, BlockedRecord(current_state, CurEvent(t)))
    /\ results' = [results EXCEPT ![t] = Append(@, None)]
    /\ done' = [done EXCEPT ![t] = @ + 1]
    /\ pc' = [pc EXCEPT ![t] = "idle"]
    /\ UNCHANGED <<current_state, last, job_seq, scriptVars, serviceVars, prog, from_state,
                   new_state, old_state, start_state>>

\* line 69: old_state = self._current_state
T_ReadOld(t) ==
    /\ pc[t] = "check"
    /\ new_state[t] # None
    /\ old_state' = [old_state EXCEPT ![t] = current_state]
    /\ pc' = [pc EXCEPT ![t] = "write"]
    /\ UNCHANGED <<smVars, scriptVars, serviceVars, prog, done, from_state, new_state, results,
                   start_state>>

\* line 70: self._current_state = new_state
T_Write(t) ==
    /\ pc[t] = "write"
    /\ current_state' = new_state[t]
    /\ job_seq' = IssueJob(job_seq, new_state[t])
    /\ pc' = [pc EXCEPT ![t] = "log"]
    /\ UNCHANGED <<log, last, scriptVars, serviceVars, prog, done, from_state, new_state, old_state,
                   results, start_state>>

\* lines 71-72: logger.info(...); return new_state
T_Return(t) ==
    /\ pc[t] = "log"
    /\ log' = Append(log, TransitionRecord(old_state[t], CurEvent(t), new_state[t]))
    /\ results' = [results EXCEPT ![t] = Append(@, new_state[t])]
    /\ done' = [done EXCEPT ![t] = @ + 1]
    /\ pc' = [pc EXCEPT ![t] = "idle"]
    /\ UNCHANGED <<current_state, last, job_seq, scriptVars, serviceVars, prog, from_state,
                   new_state, old_state, start_state>>

NextThreads ==
    \E t \in Threads :
        \/ T_Calculate(t)
        \/ T_Blocked(t)
        \/ T_ReadOld(t)
        \/ T_Write(t)
        \/ T_Return(t)

SpecThreads == InitThreads /\ [][NextThreads]_vars

----------------------------------------------------------------------------
(* SpecSTT: one STTService; initialize() and the transcription requests    *)
(* are called by the application, each worker thread runs step by step.    *)

InitSTTSpec ==
    /\ InitSM("INIT")
    /\ InitNoScript
    /\ InitNoThreads
    /\ InitNoServices

\* initialize(callback), lines 102-135: starts the STTInitWorker thread
Initialize ==
    /\ init_pc = "idle"
    /\ init_pc' = "load"
    /\ UNCHANGED <<is_ready, model, init_result, init_calls, jobs>>
    /\ UNCHANGED notSTTVars
    /\ SessionUntouched

\* _load_and_warmup, lines 148-168 and 178-185: import and WhisperModel(...)
InitLoad ==
    /\ init_pc = "load"
    /\ \E loaded \in BOOLEAN :
        IF loaded
        THEN /\ model' = "WhisperModel"
             /\ init_pc' = "warmup"
             /\ UNCHANGED init_result
        ELSE /\ init_result' = STTServiceResult(FALSE, "Cannot load STT model")
             /\ init_pc' = "callback"
             /\ UNCHANGED model
    /\ UNCHANGED <<is_ready, init_calls, jobs>>
    /\ UNCHANGED notSTTVars
    /\ SessionUntouched

\* _load_and_warmup, lines 171-176 and 182-185: _warmup(), _is_ready = True
InitWarmup ==
    /\ init_pc = "warmup"
    /\ \E warm \in BOOLEAN :
        /\ is_ready' = ReadyAfterWarmup(is_ready, warm)
        /\ init_result' = IF warm
                          THEN STTServiceResult(TRUE, None)
                          ELSE STTServiceResult(FALSE, "Cannot load STT model")
    /\ init_pc' = "callback"
    /\ UNCHANGED <<model, init_calls, jobs>>
    /\ UNCHANGED notSTTVars
    /\ SessionUntouched

\* _run_in_thread, line 127: callback(result), outside any try
InitCallback ==
    /\ init_pc = "callback"
    /\ init_calls' = init_calls + 1
    /\ \E raises \in BOOLEAN :
        init_pc' = IF raises THEN "crashed" ELSE "finished"
    /\ UNCHANGED <<is_ready, model, init_result, jobs>>
    /\ UNCHANGED notSTTVars
    /\ SessionUntouched

\* transcribe_full(audio_data, job_id, callback), lines 284-334
TranscribeFull(j) ==
    /\ jobs[j].pc = "unissued"
    /\ \A i \in JobNums : i < j => jobs[i].pc # "unissued"
    /\ \E audio \in AudioInputs, job_id \in FullJobIds :
        LET entry == FullWorkerEntry(is_ready, model) IN
        jobs' = [jobs EXCEPT ![j] =
                    [NoJob EXCEPT !.op = "full", !.audio = audio,
                                  !.job_id = job_id,
                                  !.ready_at_call = ~NotReady(is_ready, model),
                                  !.thread_started = TRUE,
                                  !.pc = entry,
                                  !.result = IF entry = "not_ready_callback"
                                             THEN FullNotReady(job_id)
                                             ELSE NoResult]]
    /\ UNCHANGED <<is_ready, model, init_pc, init_result, init_calls>>
    /\ UNCHANGED notSTTVars
    /\ SessionUntouched

\* transcribe_snippet(audio_data, callback), lines 243-282
TranscribeSnippet(j) ==
    /\ jobs[j].pc = "unissued"
    /\ \A i \in JobNums : i < j => jobs[i].pc # "unissued"
    /\ \E audio \in AudioInputs :
        jobs' = [jobs EXCEPT ![j] =
                    [NoJob EXCEPT !.op = "snippet", !.audio = audio,
                                  !.ready_at_call = ~NotReady(is_ready, model),
                                  !.thread_started = TRUE,
                                  !.pc = "start"]]
    /\ UNCHANGED <<is_ready, model, init_pc, init_result, init_calls>>
    /\ UNCHANGED notSTTVars
    /\ SessionUntouched

\* the worker's first log message, lines 261-264 and 303-306
WorkerStart(j) ==
    /\ jobs[j].pc = "start"
    /\ jobs' = [jobs EXCEPT ![j].pc = AfterStartLog(jobs[j].audio)]
    /\ UNCHANGED <<is_ready, model, init_pc, init_result, init_calls>>
    /\ UNCHANGED notSTTVars
    /\ SessionUntouched

\* result = self._transcribe_..._internal(...), lines 266 and 307
WorkerInternal(j) ==
    /\ jobs[j].pc = "internal"
    /\ \E engine \in EngineOutcomes :
        jobs' = [jobs EXCEPT
            ![j].result =
                IF jobs[j].op = "full"
                THEN TranscribeFullInternal(is_ready, model, jobs[j].audio,
                                            jobs[j].job_id, engine)
                ELSE TranscribeSnippetInternal(is_ready, model, jobs[j].audio, engine),
            ![j].found_not_ready = NotReady(is_ready, model),
            ![j].engine_called = ReachesEngine(is_ready, model, jobs[j].audio),
            ![j].pc = "callback"]
    /\ UNCHANGED <<is_ready, model, init_pc, init_result, init_calls>>
    /\ UNCHANGED notSTTVars
    /\ SessionUntouched

\* callback(result), lines 274, 312 and 322: outside any try
WorkerCallback(j) ==
    /\ jobs[j].pc \in {"callback", "not_ready_callback"}
    /\ \E raises \in BOOLEAN :
        jobs' = [jobs EXCEPT
            ![j].calls = @ + 1,
            ![j].pc = IF raises THEN "crashed" ELSE "finished"]
    /\ UNCHANGED <<is_ready, model, init_pc, init_result, init_calls>>
    /\ UNCHANGED notSTTVars
    /\ SessionUntouched

NextSTT ==
    \/ Initialize
    \/ InitLoad
    \/ InitWarmup
    \/ InitCallback
    \/ \E j \in JobNums :
        \/ TranscribeFull(j)
        \/ TranscribeSnippet(j)
        \/ WorkerStart(j)
        \/ WorkerInternal(j)
        \/ WorkerCallback(j)

SpecSTT == InitSTTSpec /\ [][NextSTT]_vars

----------------------------------------------------------------------------
(* SpecTracker: one SnippetTrackerService; one thread calls start(),       *)
(* pause(), resume() and stop(); each SnippetTrackerWorker runs step by    *)
(* step; the STTService it uses is initialized concurrently.               *)

InitTrackerSpec ==
    /\ InitSM("INIT")
    /\ InitNoScript
    /\ InitNoThreads
    /\ InitNoServices

\* is the worker thread still running? (what join() waits for)
ThreadAlive(w) == workers[w] \in {"check", "sleep", "transcribe"}

\* line 134: logger.info("Stopping SnippetTrackerService")
StoppingRecord == "Stopping SnippetTrackerService"

\* line 146: logger.info("SnippetTrackerService stopped")
StoppedRecord == "SnippetTrackerService stopped"

\* lines 139-140: nothing is logged after join(timeout=2.0), whether the
\* thread has ended or not
JoinRecords(timed_out) == <<>>

\* start(), lines 70-94, wholly under the lock
Start ==
    /\ ctrl_pc = "idle"
    /\ lock = 0
    /\ StartIsNoOp(is_running) \/ background_thread < MaxEpisodes
    /\ IF StartIsNoOp(is_running)
       THEN UNCHANGED trackerVars
       ELSE /\ is_running' = TRUE
            /\ is_paused' = FALSE
            /\ cumulative_time' = 0
            /\ snippet_triggered' = FALSE
            /\ stop_event' = FALSE
            /\ background_thread' = background_thread + 1
            /\ workers' = [workers EXCEPT ![background_thread + 1] = "check"]
            /\ fires' = 0
            /\ dispatched' = 0
            /\ errors' = 0
            /\ paused_early' = FALSE
            /\ snippet_audio' = NoSnippetAudio
            /\ reports' = <<>>
            /\ UNCHANGED <<lock, ctrl_pc, join_timed_out, stop_log>>
    /\ UNCHANGED <<sttVars, notTrackerVars>>
    /\ SessionUntouched

\* pause(), lines 96-110, wholly under the lock
Pause ==
    /\ ctrl_pc = "idle"
    /\ lock = 0
    /\ IF PauseApplies(is_running, is_paused)
       THEN /\ is_paused' = TRUE
            /\ paused_early' = (paused_early \/ ~snippet_triggered)
       ELSE UNCHANGED <<is_paused, paused_early>>
    /\ UNCHANGED <<is_running, cumulative_time, snippet_triggered, stop_event, lock,
                   workers, background_thread, ctrl_pc, fires, dispatched, errors>>
    /\ UNCHANGED <<join_timed_out, stop_log, snippet_audio, reports>>
    /\ UNCHANGED <<sttVars, notTrackerVars>>
    /\ SessionUntouched

\* resume(), lines 112-126, wholly under the lock
Resume ==
    /\ ctrl_pc = "idle"
    /\ lock = 0
    /\ is_paused' = IF ResumeApplies(is_running, is_paused) THEN FALSE ELSE is_paused
    /\ UNCHANGED <<is_running, cumulative_time, snippet_triggered, stop_event, lock,
                   workers, background_thread, ctrl_pc, fires, dispatched, errors,
                   paused_early>>
    /\ UNCHANGED <<join_timed_out, stop_log, snippet_audio, reports>>
    /\ UNCHANGED <<sttVars, notTrackerVars>>
    /\ SessionUntouched

\* stop(), lines 130-136: the first locked section
StopBegin ==
    /\ ctrl_pc = "idle"
    /\ lock = 0
    /\ IF ~is_running
       THEN UNCHANGED <<is_running, stop_event, ctrl_pc, join_timed_out, stop_log>>
       ELSE /\ is_running' = FALSE
            /\ stop_event' = TRUE
            /\ ctrl_pc' = "join"
            /\ join_timed_out' = FALSE
            /\ stop_log' = <<StoppingRecord>>
    /\ UNCHANGED <<is_paused, cumulative_time, snippet_triggered, lock, workers,
                   background_thread, fires, dispatched, errors, paused_early>>
    /\ UNCHANGED <<snippet_audio, reports>>
    /\ UNCHANGED <<sttVars, notTrackerVars>>
    /\ SessionUntouched

\* stop(), lines 139-140: join(timeout=2.0) returns when the thread has ended
\* or when the timeout has elapsed, whatever the thread is doing
StopJoin ==
    /\ ctrl_pc = "join"
    /\ ctrl_pc' = "reset"
    /\ join_timed_out' = ThreadAlive(background_thread)
    /\ stop_log' = stop_log \o JoinRecords(ThreadAlive(background_thread))
    /\ UNCHANGED <<is_running, is_paused, cumulative_time, snippet_triggered,
                   stop_event, lock, workers, background_thread, fires, dispatched,
                   errors, paused_early>>
    /\ UNCHANGED <<snippet_audio, reports>>
    /\ UNCHANGED <<sttVars, notTrackerVars>>
    /\ SessionUntouched

\* stop(), lines 142-146: the second locked section
StopReset ==
    /\ ctrl_pc = "reset"
    /\ lock = 0
    /\ is_paused' = StoppedFields.is_paused
    /\ cumulative_time' = StoppedFields.cumulative_time
    /\ snippet_triggered' = StoppedFields.snippet_triggered
    /\ stop_log' = Append(stop_log, StoppedRecord)
    /\ ctrl_pc' = "idle"
    /\ UNCHANGED join_timed_out
    /\ UNCHANGED <<is_running, stop_event, lock, workers, background_thread, fires,
                   dispatched, errors, paused_early>>
    /\ UNCHANGED <<snippet_audio, reports>>
    /\ UNCHANGED <<sttVars, notTrackerVars>>
    /\ SessionUntouched

\* _background_worker, line 163: while not self._stop_event.is_set()
W_Check(w) ==
    /\ workers[w] = "check"
    /\ workers' = [workers EXCEPT ![w] = IF stop_event THEN "finished" ELSE "sleep"]
    /\ UNCHANGED <<is_running, is_paused, cumulative_time, snippet_triggered,
                   stop_event, lock, background_thread, ctrl_pc, fires, dispatched,
                   errors, paused_early>>
    /\ UNCHANGED <<join_timed_out, stop_log, snippet_audio, reports>>
    /\ UNCHANGED <<sttVars, notTrackerVars>>
    /\ SessionUntouched

\* _background_worker, lines 164-184: sleep, take the lock, test is_running,
\* accumulate, test the threshold; the lock is kept for _transcribe_snippet
W_Tick(w) ==
    /\ workers[w] = "sleep"
    /\ lock = 0
    /\ IF TickBreaks(is_running)
       THEN /\ workers' = [workers EXCEPT ![w] = "finished"]
            /\ UNCHANGED <<cumulative_time, snippet_triggered, lock, fires>>
       ELSE LET acc  == Accumulates(is_paused, snippet_triggered)
                time == IF acc THEN cumulative_time + 1 ELSE cumulative_time
                fire == acc /\ ReachedThreshold(time)
            IN  /\ cumulative_time' = time
                /\ snippet_triggered' = (snippet_triggered \/ fire)
                /\ fires' = IF fire THEN fires + 1 ELSE fires
                /\ lock' = IF fire THEN w ELSE 0
                /\ workers' = [workers EXCEPT ![w] = IF fire THEN "transcribe" ELSE "check"]
    /\ UNCHANGED <<is_running, is_paused, stop_event, background_thread, ctrl_pc,
                   dispatched, errors, paused_early>>
    /\ UNCHANGED <<join_timed_out, stop_log, snippet_audio, reports>>
    /\ UNCHANGED <<sttVars, notTrackerVars>>
    /\ SessionUntouched

\* _transcribe_snippet, lines 191-262, called with the lock held: the error
\* callback of lines 199-212 (outside any try) or the dispatch of line 262
W_TranscribeSnippet(w) ==
    /\ workers[w] = "transcribe"
    /\ lock = w
    /\ IF ~is_ready
       THEN /\ errors' = errors + 1
            /\ reports' = Append(reports, NotReadyReport)
            /\ \E raises \in BOOLEAN :
                workers' = [workers EXCEPT ![w] = IF raises THEN "crashed" ELSE "check"]
            /\ UNCHANGED <<dispatched, snippet_audio>>
       ELSE /\ \E provider \in ProviderOutcomes :
                snippet_audio' = [provider |-> provider, audio |-> SnippetAudio(provider)]
            /\ dispatched' = dispatched + 1
            /\ workers' = [workers EXCEPT ![w] = "check"]
            /\ UNCHANGED <<errors, reports>>
    /\ lock' = 0
    /\ UNCHANGED <<is_running, is_paused, cumulative_time, snippet_triggered,
                   stop_event, background_thread, ctrl_pc, fires, paused_early>>
    /\ UNCHANGED <<join_timed_out, stop_log>>
    /\ UNCHANGED <<sttVars, notTrackerVars>>
    /\ SessionUntouched

NextTracker ==
    \/ Start
    \/ Pause
    \/ Resume
    \/ StopBegin
    \/ StopJoin
    \/ StopReset
    \/ \E w \in WorkerIds :
        \/ W_Check(w)
        \/ W_Tick(w)
        \/ W_TranscribeSnippet(w)
    \/ Initialize
    \/ InitLoad
    \/ InitWarmup
    \/ InitCallback

SpecTracker == InitTrackerSpec /\ [][NextTracker]_vars

----------------------------------------------------------------------------
(* SpecTrackerLive: the tracker with the calls of its controlling thread   *)
(* taken in two steps, the call and the entry into "with self._lock", and  *)
(* a snippet callback that hands its work to the controlling thread and    *)
(* waits for it (call_from_thread, as the services' docstrings prescribe). *)

\* the controlling thread is free to run a callback handed to it
ControllerFree == ctrl_pc = "idle"

\* pause(), resume() or stop() is called: line 98, 114 or 130 is reached
L_Call ==
    /\ ctrl_pc = "idle"
    /\ ctrl_pc' \in {"pause", "resume", "stop"}
    /\ UNCHANGED <<is_running, is_paused, cumulative_time, snippet_triggered,
                   stop_event, lock, workers, background_thread, fires, dispatched,
                   errors, paused_early>>
    /\ UNCHANGED <<join_timed_out, stop_log, snippet_audio, reports>>
    /\ UNCHANGED <<sttVars, notTrackerVars>>
    /\ SessionUntouched

\* pause(), lines 98-110, once the lock is free
L_Pause ==
    /\ ctrl_pc = "pause"
    /\ lock = 0
    /\ IF PauseApplies(is_running, is_paused)
       THEN /\ is_paused' = TRUE
            /\ paused_early' = (paused_early \/ ~snippet_triggered)
       ELSE UNCHANGED <<is_paused, paused_early>>
    /\ ctrl_pc' = "idle"
    /\ UNCHANGED <<is_running, cumulative_time, snippet_triggered, stop_event, lock,
                   workers, background_thread, fires, dispatched, errors>>
    /\ UNCHANGED <<join_timed_out, stop_log, snippet_audio, reports>>
    /\ UNCHANGED <<sttVars, notTrackerVars>>
    /\ SessionUntouched

\* resume(), lines 114-126, once the lock is free
L_Resume ==
    /\ ctrl_pc = "resume"
    /\ lock = 0
    /\ is_paused' = IF ResumeApplies(is_running, is_paused) THEN FALSE ELSE is_paused
    /\ ctrl_pc' = "idle"
    /\ UNCHANGED <<is_running, cumulative_time, snippet_triggered, stop_event, lock,
                   workers, background_thread, fires, dispatched, errors,
                   paused_early>>
    /\ UNCHANGED <<join_timed_out, stop_log, snippet_audio, reports>>
    /\ UNCHANGED <<sttVars, notTrackerVars>>
    /\ SessionUntouched

\* stop(), lines 130-136, once the lock is free
L_StopBegin ==
    /\ ctrl_pc = "stop"
    /\ lock = 0
    /\ IF ~is_running
       THEN /\ ctrl_pc' = "idle"
            /\ UNCHANGED <<is_running, stop_event, join_timed_out, stop_log>>
       ELSE /\ is_running' = FALSE
            /\ stop_event' = TRUE
            /\ ctrl_pc' = "join"
            /\ join_timed_out' = FALSE
            /\ stop_log' = <<StoppingRecord>>
    /\ UNCHANGED <<is_paused, cumulative_time, snippet_triggered, lock, workers,
                   background_thread, fires, dispatched, errors, paused_early>>
    /\ UNCHANGED <<snippet_audio, reports>>
    /\ UNCHANGED <<sttVars, notTrackerVars>>
    /\ SessionUntouched

\* _transcribe_snippet, lines 191-262, with the lock held: the error callback
\* of lines 206-211 returns when the controlling thread has run it
L_TranscribeSnippet(w) ==
    /\ workers[w] = "transcribe"
    /\ lock = w
    /\ IF ~is_ready
       THEN /\ ControllerFree
            /\ errors' = errors + 1
            /\ reports' = Append(reports, NotReadyReport)
            /\ workers' = [workers EXCEPT ![w] = "check"]
            /\ UNCHANGED <<dispatched, snippet_audio>>
       ELSE /\ \E provider \in ProviderOutcomes :
                snippet_audio' = [provider |-> provider, audio |-> SnippetAudio(provider)]
            /\ dispatched' = dispatched + 1
            /\ workers' = [workers EXCEPT ![w] = "check"]
            /\ UNCHANGED <<errors, reports>>
    /\ lock' = 0
    /\ UNCHANGED <<is_running, is_paused, cumulative_time, snippet_triggered,
                   stop_event, background_thread, ctrl_pc, fires, paused_early>>
    /\ UNCHANGED <<join_timed_out, stop_log>>
    /\ UNCHANGED <<sttVars, notTrackerVars>>
    /\ SessionUntouched

\* the steps of the controlling thread inside a call
ControllerSteps ==
    \/ L_Pause
    \/ L_Resume
    \/ L_StopBegin
    \/ StopJoin
    \/ StopReset

\* the steps of one SnippetTrackerWorker thread
WorkerSteps(w) ==
    \/ W_Check(w)
    \/ W_Tick(w)
    \/ L_TranscribeSnippet(w)

NextTrackerLive ==
    \/ Start
    \/ L_Call
    \/ ControllerSteps
    \/ \E w \in WorkerIds : WorkerSteps(w)
    \/ Initialize
    \/ InitLoad
    \/ InitWarmup
    \/ InitCallback

SpecTrackerLive ==
    /\ InitTrackerSpec
    /\ [][NextTrackerLive]_vars
    /\ WF_vars(ControllerSteps)
    /\ \A w \in WorkerIds : WF_vars(WorkerSteps(w))

----------------------------------------------------------------------------
(* SpecRecording: one RecordingService; the application calls start(),     *)
(* pause(), resume(), stop(), get_snippet() and get_full() while the audio *)
(* thread of the stream calls _callback.                                   *)

InitRecordingSpec ==
    /\ InitSM("INIT")
    /\ InitNoScript
    /\ InitNoThreads
    /\ InitNoServices

\* start(), lines 48-66: the buffer is emptied, the stream opened (or not)
RecStart ==
    /\ stream = None
    /\ \E opened \in BOOLEAN :
        stream' = IF opened THEN "active" ELSE None
    /\ chunks' = StartedBuffer(chunks)
    /\ snap' = NoSnap
    /\ UNCHANGED appended
    /\ UNCHANGED notRecVars
    /\ SessionUntouched

\* _callback, lines 68-72: the audio thread appends a copy of indata
RecCallback ==
    /\ stream = "active"
    /\ appended < MaxChunks
    /\ \E frames \in 1..MaxFrames :
        chunks' = Append(chunks, NewChunk(FirstSampleOf(appended + 1), frames))
    /\ appended' = appended + 1
    /\ UNCHANGED <<stream, snap>>
    /\ UNCHANGED notRecVars
    /\ SessionUntouched

\* pause(), lines 104-111: self._stream.stop()
RecPause ==
    /\ stream # None
    /\ stream' = "stopped"
    /\ UNCHANGED <<chunks, appended, snap>>
    /\ UNCHANGED notRecVars
    /\ SessionUntouched

\* resume(), lines 113-120: self._stream.start()
RecResume ==
    /\ stream # None
    /\ stream' = "active"
    /\ UNCHANGED <<chunks, appended, snap>>
    /\ UNCHANGED notRecVars
    /\ SessionUntouched

\* stop(), lines 90-102: the stream is stopped and closed
RecStop ==
    /\ stream # None
    /\ stream' = None
    /\ UNCHANGED <<chunks, appended, snap>>
    /\ UNCHANGED notRecVars
    /\ SessionUntouched

\* get_snippet(seconds), lines 122-131
GetSnippet ==
    /\ \E seconds \in 0..MaxSeconds :
        snap' = [op |-> "get_snippet", seconds |-> seconds,
                 result |-> GetSnippetResult(chunks, seconds),
                 upto |-> Len(chunks)]
    /\ UNCHANGED <<stream, chunks, appended>>
    /\ UNCHANGED notRecVars
    /\ SessionUntouched

\* get_full(), lines 133-138
GetFull ==
    /\ snap' = [op |-> "get_full", seconds |-> 0,
                result |-> GetFullResult(chunks), upto |-> Len(chunks)]
    /\ UNCHANGED <<stream, chunks, appended>>
    /\ UNCHANGED notRecVars
    /\ SessionUntouched

NextRecording ==
    \/ RecStart
    \/ RecCallback
    \/ RecPause
    \/ RecResume
    \/ RecStop
    \/ GetSnippet
    \/ GetFull

SpecRecording == InitRecordingSpec /\ [][NextRecording]_vars

----------------------------------------------------------------------------
(* SpecDoctor: one DoctorService; run_checks() is called at startup and    *)
(* again after F2; the worker thread runs check by check.                  *)

InitDoctorSpec ==
    /\ InitSM("INIT")
    /\ InitNoScript
    /\ InitNoThreads
    /\ InitNoServices

\* run_checks(callback), lines 64-91: starts the worker thread (the runs
\* are taken one after the other, as the startup run and the F2 re-runs are)
RunChecks ==
    /\ doctor_pc \in {"idle", "finished", "crashed"}
    /\ doctor_runs < MaxRuns
    /\ doctor_runs' = doctor_runs + 1
    /\ doctor_pc' = "paths"
    /\ doctor_trace' = <<>>
    /\ doctor_result' = NoDoctorResult
    /\ UNCHANGED <<doctor_calls, config_device, config_writes>>
    /\ UNCHANGED notDoctorVars
    /\ SessionUntouched

\* _perform_checks, lines 100-109: _check_paths()
D_CheckPaths ==
    /\ doctor_pc = "paths"
    /\ \E ok \in BOOLEAN :
        /\ doctor_trace' = Append(doctor_trace, [check |-> "paths", ok |-> ok])
        /\ doctor_pc' = PathsStep(ok).next
        /\ doctor_result' = PathsStep(ok).result
    /\ UNCHANGED <<doctor_calls, doctor_runs, config_device, config_writes>>
    /\ UNCHANGED notDoctorVars
    /\ SessionUntouched

\* _perform_checks, lines 111-115: _check_requirements()
D_CheckRequirements ==
    /\ doctor_pc = "requirements"
    /\ \E ok \in BOOLEAN :
        /\ doctor_trace' = Append(doctor_trace, [check |-> "requirements", ok |-> ok])
        /\ doctor_pc' = RequirementsStep(ok).next
        /\ doctor_result' = RequirementsStep(ok).result
    /\ UNCHANGED <<doctor_calls, doctor_runs, config_device, config_writes>>
    /\ UNCHANGED notDoctorVars
    /\ SessionUntouched

\* _perform_checks, lines 117-127: _check_stt_model()
D_CheckModel ==
    /\ doctor_pc = "model"
    /\ \E ok \in BOOLEAN :
        /\ doctor_trace' = Append(doctor_trace, [check |-> "model", ok |-> ok])
        /\ doctor_pc' = ModelStep(ok).next
        /\ doctor_result' = ModelStep(ok).result
    /\ UNCHANGED <<doctor_calls, doctor_runs, config_device, config_writes>>
    /\ UNCHANGED notDoctorVars
    /\ SessionUntouched

\* _perform_checks, lines 129-149: _check_microphone(), lines 262-299, which
\* saves a working device that differs from the stored one to config.toml
\* (update_audio_device may fail: the failure is logged and ignored)
D_CheckMic ==
    /\ doctor_pc = "mic"
    /\ \E mic \in MicOutcomes :
        /\ doctor_trace' = Append(doctor_trace, [check |-> "mic", ok |-> mic.ok])
        /\ doctor_pc' = MicStep(mic.ok).next
        /\ doctor_result' = MicStep(mic.ok).result
        /\ IF SavesDevice(mic, config_device)
           THEN \E written \in BOOLEAN :
                   IF written
                   THEN /\ config_device' = mic.device
                        /\ config_writes' = config_writes + 1
                   ELSE UNCHANGED <<config_device, config_writes>>
           ELSE UNCHANGED <<config_device, config_writes>>
    /\ UNCHANGED <<doctor_calls, doctor_runs>>
    /\ UNCHANGED notDoctorVars
    /\ SessionUntouched

\* _run_in_thread, line 87: callback(result), outside any try
D_Callback ==
    /\ doctor_pc = "callback"
    /\ doctor_calls' = doctor_calls + 1
    /\ \E raises \in BOOLEAN :
        doctor_pc' = IF raises THEN "crashed" ELSE "finished"
    /\ UNCHANGED <<doctor_trace, doctor_result, doctor_runs, config_device, config_writes>>
    /\ UNCHANGED notDoctorVars
    /\ SessionUntouched

NextDoctor ==
    \/ RunChecks
    \/ D_CheckPaths
    \/ D_CheckRequirements
    \/ D_CheckModel
    \/ D_CheckMic
    \/ D_Callback

SpecDoctor == InitDoctorSpec /\ [][NextDoctor]_vars

----------------------------------------------------------------------------
(* The transition table of the specification, section 4.1, as rows         *)
(* <<from, event, to>>. An event is named by its class, and                *)
(* DoctorCompleted (PreflightCompleted) also by its success flag.          *)

RowKey(event) ==
    IF event.kind = "DoctorCompleted"
    THEN <<event.kind, IF event.success THEN "success" ELSE "failure">>
    ELSE <<event.kind>>

TableRows ==
    { <<"READY",      <<"KeyF9Pressed">>,  "RECORDING">>,
      <<"RECORDING",  <<"KeyF9Pressed">>,  "PAUSED">>,
      <<"PAUSED",     <<"KeyF9Pressed">>,  "RECORDING">>,
      <<"DONE",       <<"KeyF9Pressed">>,  "RECORDING">>,
      <<"RECORDING",  <<"KeyF10Pressed">>, "PROCESSING">>,
      <<"PAUSED",     <<"KeyF10Pressed">>, "PROCESSING">>,
      <<"DONE",       <<"KeyF8Pressed">>,  "PROCESSING">>,
      <<"READY",      <<"KeyF2Pressed">>,  "INIT">>,
      <<"DONE",       <<"KeyF2Pressed">>,  "INIT">>,
      <<"ERROR",      <<"KeyF2Pressed">>,  "INIT">>,
      <<"INIT",       <<"DoctorCompleted", "success">>, "READY">>,
      <<"INIT",       <<"DoctorCompleted", "failure">>, "ERROR">>,
      <<"PROCESSING", <<"FullSTTDone">>,   "DONE">>,
      <<"PROCESSING", <<"FullSTTFail">>,   "ERROR">> }

\* the rows for (state, event): at most one
RowsFor(state, event) ==
    {row \in TableRows : row[1] = state /\ row[2] = RowKey(event)}

\* the records the last call of transition() appended to the log
LastRecords == SubSeq(log, last.mark + 1, Len(log))

----------------------------------------------------------------------------
(* Claims about one caller (Spec, SpecScript).                             *)

\* C1: for every (state, event) of the transition table, transition()
\* returns the tabulated target state (not None) and current_state is that
\* target afterwards.
C1_TableRowAccepted ==
    last.called =>
        \A row \in RowsFor(last.old, last.event) :
            /\ last.ret = row[3]
            /\ current_state = row[3]

\* C1 witness: Redo was submitted in DONE and the state is PROCESSING.
C1_Witness ==
    /\ last.called
    /\ last.old = "DONE"
    /\ last.event = KeyF8Pressed
    /\ current_state = "PROCESSING"

\* C2: for every (state, event) outside the transition table, transition()
\* returns None and current_state is what it was before the call.
C2_OffTableRejected ==
    (last.called /\ RowsFor(last.old, last.event) = {}) =>
        /\ last.ret = None
        /\ current_state = last.old

\* C2 witness: preflight was submitted while RECORDING and was blocked.
C2_Witness ==
    /\ last.called
    /\ last.old = "RECORDING"
    /\ last.event = KeyF2Pressed
    /\ last.ret = None
    /\ current_state = "RECORDING"

\* C5: a FullSTTDone or FullSTTFail whose job_id belongs to a superseded job
\* (an older job than the newest one issued) does not move the state out of
\* PROCESSING.
C5_StaleResultDiscarded ==
    ( /\ last.called
      /\ last.event.kind \in {"FullSTTDone", "FullSTTFail"}
      /\ last.old = "PROCESSING"
      /\ last.event.job_id < job_seq )
    => current_state = "PROCESSING"

\* C6: QuitRequested is accepted (never returns None) in every state.
C6_QuitAccepted ==
    (last.called /\ last.event = QuitRequested) => last.ret # None

\* the set of the class names get_allowed_transitions lists for the state
AllowedKinds(state) ==
    {GetAllowedTransitions(state)[i] : i \in DOMAIN GetAllowedTransitions(state)}

\* C7: in the current state an event kind is listed by
\* get_allowed_transitions if and only if transition() accepts an event of
\* that kind.
C7_AllowedIffAccepted ==
    \A e \in Events :
        (e.kind \in AllowedKinds(current_state))
            <=> (CalculateTransition(current_state, e) # None)

\* C8: when an event was rejected and the same event is submitted again
\* right after, it is rejected again, current_state is unchanged by both
\* calls, and the second call logs the same records as the first.
C8_RejectionIdempotent ==
    [][ ( /\ last.called
          /\ last.ret = None
          /\ last'.event = last.event
          /\ last'.mark = Len(log) )
        => ( /\ last'.ret = None
             /\ current_state = last.old
             /\ current_state' = current_state
             /\ LastRecords' = LastRecords ) ]_vars

\* C8 witness: two calls in a row were blocked and left the same record.
C8_Witness ==
    /\ last.called
    /\ last.ret = None
    /\ last.mark >= 2
    /\ Len(log) = last.mark + 1
    /\ log[Len(log)] = log[Len(log) - 1]
    /\ log[Len(log)].new = "(blocked)"
    /\ current_state = last.old

\* the scenario of the specification, section 8, and the states it names
Scenario ==
    <<DoctorCompleted(TRUE), KeyF9Pressed, KeyF10Pressed, FullSTTDone(1),
      KeyF8Pressed, FullSTTFail(2)>>

ScenarioStates ==
    <<"READY", "RECORDING", "PROCESSING", "DONE", "PROCESSING", "ERROR">>

RunsScenario ==
    /\ Len(script) >= Len(Scenario)
    /\ SubSeq(script, 1, Len(Scenario)) = Scenario

\* C9: from INIT, each event of the scenario PreflightCompleted(success),
\* StartPauseResume, StopAndProcess, FullSTTDone, Redo, FullSTTFail is
\* accepted and leaves the state READY, RECORDING, PROCESSING, DONE,
\* PROCESSING, ERROR in that order.
C9_ScenarioStates ==
    (RunsScenario /\ idx \in 1..Len(Scenario)) =>
        /\ last.ret = ScenarioStates[idx]
        /\ current_state = ScenarioStates[idx]

\* C9 witness: the whole scenario was submitted and the state is ERROR.
C9_Witness ==
    /\ RunsScenario
    /\ idx = Len(Scenario)
    /\ last.event = FullSTTFail(2)
    /\ current_state = "ERROR"

\* the event classes the table of the specification names
TableKinds == {row[2][1] : row \in TableRows} \cup {"QuitRequested"}

\* C10: an event of a class the transition table does not name is rejected
\* in every state, leaves current_state unchanged, and is logged with an
\* 'Unknown event type' warning.
C10_UnknownEventRejected ==
    (last.called /\ last.event.kind \notin TableKinds) =>
        /\ last.ret = None
        /\ current_state = last.old
        /\ \E i \in DOMAIN LastRecords :
              /\ LastRecords[i].level = "WARNING"
              /\ LastRecords[i].msg = "Unknown event type"
              /\ LastRecords[i].kind = last.event.kind

\* C10 witness: AudioLevelUpdated was submitted while PROCESSING.
C10_Witness ==
    /\ last.called
    /\ last.event = AudioLevelUpdated
    /\ last.old = "PROCESSING"
    /\ current_state = "PROCESSING"

\* the domain payload an event carries: transcript text and error hint
Payload(event) ==
    (IF "transcript" \in DOMAIN event THEN {event.transcript} ELSE {})
    \cup (IF "error_hint" \in DOMAIN event THEN {event.error_hint} ELSE {})

\* the values formatted into a log record
RecordValues(rec) == {rec[f] : f \in DOMAIN rec}

\* the outcome a log record shows for a return value of transition()
OutcomeShown(ret) == IF ret = None THEN "(blocked)" ELSE ret

\* C11: every call of transition(), accepted or rejected, appends a log
\* record made of the old state, the event's class name and the outcome, and
\* no log record holds the payload (transcript, error hint) of an event.
C11_AuditEntryNoPayload ==
    /\ last.called =>
          /\ Len(LastRecords) >= 1
          /\ LET rec == LastRecords[Len(LastRecords)] IN
                /\ rec.old = last.old
                /\ rec.kind = last.event.kind
                /\ rec.new = OutcomeShown(last.ret)
    /\ \A i \in DOMAIN log : \A e \in Events :
          RecordValues(log[i]) \cap Payload(e) = {}

\* C11 witness: a FullSTTDone with a transcript was accepted and logged.
C11_Witness ==
    /\ last.called
    /\ last.event.kind = "FullSTTDone"
    /\ last.ret = "DONE"
    /\ log[Len(log)].kind = "FullSTTDone"

\* C12: current_state is always exactly one of the seven states, and it is
\* INIT for a StateMachine built with defaults on which nothing was
\* submitted yet.
C12_OneOfSevenStates ==
    /\ current_state \in AppState
    /\ Cardinality(AppState) = 7
    /\ ~last.called => current_state = "INIT"

\* C12 witness: a rejected event was submitted and the state is still a state.
C12_Witness ==
    /\ last.called
    /\ last.ret = None
    /\ current_state = "PAUSED"

\* C13: a PROCESSING episode is ended (DONE or ERROR) only by the result of
\* the newest job: after a Redo the identifier of the previous episode's job
\* is invalid and its result cannot end the new episode.
C13_OnlyNewestJobEndsEpisode ==
    ( /\ last.called
      /\ last.old = "PROCESSING"
      /\ last.ret \in {"DONE", "ERROR"}
      /\ last.event.job_id <= job_seq )
    => last.event.job_id = job_seq

----------------------------------------------------------------------------
(* Claims about concurrent callers (SpecThreads).                          *)

\* every producer has submitted its whole sequence and returned
AllReturned ==
    \A t \in Threads : pc[t] = "idle" /\ done[t] = Len(prog[t])

\* Serial(state, pos): the events not yet taken (producer t's from position
\* pos[t] + 1 on) can be submitted one whole call at a time, in an order
\* that keeps each producer's own order, so that every call returns what
\* the producer received and the last call leaves current_state.
RECURSIVE Serial(_, _)
Serial(state, pos) ==
    IF \A t \in Threads : pos[t] = Len(prog[t])
    THEN state = current_state
    ELSE \E t \in Threads :
            /\ pos[t] < Len(prog[t])
            /\ LET event == prog[t][pos[t] + 1]
                   new   == CalculateTransition(state, event)
               IN  /\ results[t][pos[t] + 1] = new
                   /\ Serial(StateAfter(state, new), [pos EXCEPT ![t] = @ + 1])

\* C3: when all producers have returned, the final state and every call's
\* outcome are those of some sequential order of the submitted events that
\* keeps each producer's order.
C3_Serializable ==
    AllReturned => Serial(start_state, [t \in Threads |-> 0])

\* C4: every change of current_state made by a call of transition(event)
\* goes from a state s to a state t with (s, event) -> t a row of the
\* transition table.
C4_WriteFollowsTable ==
    [][ \A t \in Threads :
          (pc[t] = "write" /\ pc'[t] = "log" /\ current_state' # current_state)
          => \E row \in RowsFor(current_state, CurEvent(t)) :
                row[3] = current_state' ]_vars

----------------------------------------------------------------------------
(* Claims about the STTService (SpecSTT).                                  *)

\* the requests that were made
Issued == {j \in JobNums : jobs[j].pc # "unissued"}

\* the requests whose worker thread has ended
Ended == {j \in JobNums : jobs[j].pc \in {"finished", "crashed"}}

\* C14: every call of transcribe_full and of transcribe_snippet reports
\* exactly one terminal result: the callback is never invoked twice, and a
\* worker that has ended has invoked it once, whatever the audio (None, empty,
\* valid), the readiness and the engine's behaviour.
C14_ExactlyOneTerminalResult ==
    /\ \A j \in Issued : jobs[j].calls <= 1
    /\ \A j \in Ended : jobs[j].calls = 1

C16_NoExceptionEscapes ==
    /\ init_pc # "crashed"
    /\ \A j \in JobNums : jobs[j].pc # "crashed"

----------------------------------------------------------------------------
(* Claims about the SnippetTrackerService (SpecTracker).                   *)

\* no worker is inside _transcribe_snippet
NoFireInProgress == \A w \in WorkerIds : workers[w] # "transcribe"

\* C17 as stated: in an episode in which the accumulated time has reached the
\* threshold, the snippet job has been dispatched exactly once.
C17_JobDispatchedOnce ==
    (is_running /\ ReachedThreshold(cumulative_time) /\ NoFireInProgress)
    => dispatched = 1

\* C17 amended: in one episode the snippet fires (_transcribe_snippet is
\* called) at most once, on the tick that takes the accumulated time of 0.1 s
\* ticks to the threshold of 8.0 s (the 81st tick), and never again whatever
\* pause/resume calls and ticks follow; the firing dispatches one snippet job
\* only if the STT service is ready then, and otherwise reports "STT nicht
\* bereit" once and dispatches nothing.
C17_FiresOncePerEpisode ==
    /\ [](/\ fires <= 1
          /\ snippet_triggered => fires = 1
          /\ is_running => (fires = 1 <=> ReachedThreshold(cumulative_time))
          /\ dispatched + errors <= fires
          /\ NoFireInProgress => dispatched + errors = fires)
    /\ [][/\ fires' # fires =>
                \/ fires' = 0 /\ ~is_running /\ is_running'
                \/ /\ fires' = fires + 1
                   /\ is_running /\ ~is_paused
                   /\ ~ReachedThreshold(cumulative_time)
                   /\ cumulative_time' = ThresholdTicks
          /\ dispatched' > dispatched => (is_ready /\ dispatched' = 1)
          /\ errors' > errors => (~is_ready /\ errors' = 1)]_vars

\* C17 witness: the threshold was reached after a pause and a resume, the
\* job was dispatched, and the worker has gone on ticking.
C17_Witness ==
    /\ is_running
    /\ paused_early
    /\ ~is_paused
    /\ cumulative_time = ThresholdTicks
    /\ fires = 1
    /\ dispatched = 1
    /\ workers[background_thread] = "sleep"

\* C18 as stated: once pause() took effect below the threshold, the snippet
\* fires zero times in the rest of the episode.
C18_NoFireAfterEarlyPause ==
    (is_running /\ paused_early) => fires = 0

\* C18 amended: the snippet does not fire, and nothing is dispatched or
\* reported, for as long as the tracker stays paused; after resume() the
\* counter goes on and the snippet can fire.
C18_NoFireWhilePaused ==
    [][is_paused => /\ fires' = fires
                    /\ dispatched' = dispatched
                    /\ errors' = errors]_vars

\* C18 witness: paused one tick below the threshold, the worker ticking on,
\* nothing fired.
C18_Witness ==
    /\ is_running
    /\ is_paused
    /\ paused_early
    /\ cumulative_time = ThresholdTicks - 1
    /\ workers[background_thread] = "sleep"
    /\ fires = 0

\* C19: within an episode the counter never decreases and changes only by
\* one tick of a worker taken while the tracker is running and not paused;
\* ticks taken while paused, pause() and resume() leave it unchanged.  (The
\* only other change is the reset to 0 made by stop() after the episode.)
C19_CounterAdvancesOnlyWhileRunning ==
    [][cumulative_time' # cumulative_time =>
          \/ /\ is_running /\ is_running'
             /\ ~is_paused
             /\ cumulative_time' = cumulative_time + 1
             /\ \E w \in WorkerIds : workers[w] = "sleep" /\ workers'[w] # "sleep"
             /\ ctrl_pc' = ctrl_pc
          \/ /\ ~is_running
             /\ ctrl_pc = "reset"
             /\ cumulative_time' = 0]_vars

\* C19 witness: the counter advanced, the tracker was paused and resumed, and
\* a worker is about to tick.
C19_Witness ==
    /\ is_running
    /\ ~is_paused
    /\ paused_early
    /\ cumulative_time = 2
    /\ workers[background_thread] = "sleep"

\* C20: when stop() has returned (and until the next start()), is_running and
\* is_paused are false, the counter is 0 and the fired flag is cleared,
\* whatever the worker was doing.
C20_StopResets ==
    (ctrl_pc = "idle" /\ ~is_running) =>
        /\ ~is_paused
        /\ cumulative_time = 0
        /\ ~snippet_triggered

\* C20 witness: stop() has returned after the snippet fired in a paused
\* episode, its join having timed out: the worker has not ended yet.
C20_Witness ==
    /\ ctrl_pc = "idle"
    /\ ~is_running
    /\ fires = 1
    /\ \E w \in WorkerIds : workers[w] = "sleep"

\* C21: the tracker's lock is not held while the worker is inside
\* _transcribe_snippet, which calls the STT service, the audio provider and
\* the snippet callback.
C21_NoLockAcrossCalls ==
    \A w \in WorkerIds : workers[w] = "transcribe" => lock # w

\* C22: when the join of stop() returned on its timeout, stop() has logged
\* it (a record besides the two it always writes) by the time it returns.
C22_TimeoutLogged ==
    (ctrl_pc = "idle" /\ join_timed_out) =>
        \E i \in DOMAIN stop_log : stop_log[i] \notin {StoppingRecord, StoppedRecord}

----------------------------------------------------------------------------
(* Claims about the RecordingService (SpecRecording).                      *)

\* the last n samples of buf (all of buf if it has no more than n)
LastSamples(buf, n) ==
    IF Len(buf) <= n THEN buf ELSE SubSeq(buf, Len(buf) - n + 1, Len(buf))

\* C23: a snapshot equals the concatenation of the chunks appended up to the
\* instant it was taken (for get_snippet, the last seconds * samplerate
\* samples of it), in append order, whatever was appended afterwards.
C23_SnapshotOfOneInstant ==
    LET upto == Concatenate(SubSeq(chunks, 1, snap.upto)) IN
    /\ snap.op = "get_full" => snap.result = upto
    /\ snap.op = "get_snippet" =>
          snap.result = LastSamples(upto, snap.seconds * Samplerate)

----------------------------------------------------------------------------
(* Claims about the services and the session state.                        *)

----------------------------------------------------------------------------
(* Claims about the DoctorService (SpecDoctor).                            *)

\* C25: the Doctor worker does not modify the stored configuration.
C25_WorkerLeavesConfig ==
    /\ config_writes = 0
    /\ config_device = ""

\* the run has produced its result
DoctorReported == doctor_pc \in {"callback", "finished", "crashed"}

\* did this run execute the check and did it pass?
Passed(check) ==
    \E i \in DOMAIN doctor_trace :
        doctor_trace[i].check = check /\ doctor_trace[i].ok

\* the error code that belongs to a hard check
CodeOf(check) ==
    CASE check = "paths" -> "PATH_NOT_WRITABLE"
      [] check = "model" -> "MODEL_NOT_LOADABLE"
      [] check = "mic"   -> "MIC_NOT_AVAILABLE"
      [] OTHER           -> None

----------------------------------------------------------------------------
(* Claims about the initialization of the STTService (SpecSTT).            *)

\* the initialization worker has produced its result
InitReported == init_pc \in {"callback", "finished", "crashed"}

----------------------------------------------------------------------------
(* Claims about the audio of a snippet job (SpecTracker).                  *)

\* C28: when the snippet fires and the STT service is ready, the tracker
\* dispatches exactly one snippet job; its audio is the provider's buffer if
\* a provider is set, does not raise and returns a non-empty buffer, and a
\* synthetic buffer of threshold_seconds * 16000 samples otherwise.
C28_SnippetAudioOrSynthetic ==
    [][\A w \in WorkerIds :
          (workers[w] = "transcribe" /\ workers'[w] # "transcribe" /\ is_ready) =>
              LET given == snippet_audio'.provider
                  audio == snippet_audio'.audio
              IN
              /\ dispatched' = dispatched + 1
              /\ errors' = errors
              /\ workers'[w] = "check"
              /\ IF given.kind = "buffer" /\ given.samples >= 1
                 THEN audio = [kind |-> "snapshot", samples |-> given.samples]
                 ELSE audio = [kind |-> "synthetic", samples |-> 128000]]_vars

\* C28 witness: the provider raised or returned nothing usable, and the one
\* job of the episode was dispatched with the synthetic buffer.
C28_Witness ==
    /\ dispatched = 1
    /\ fires = 1
    /\ snippet_audio.provider.kind = "raises"
    /\ snippet_audio.audio.kind = "synthetic"

----------------------------------------------------------------------------
(* Claims about the results of full transcriptions (SpecSTT).              *)

\* the full requests whose result has been built
FullReported == {j \in Issued : jobs[j].op = "full" /\ jobs[j].result # NoResult}

\* C29: a failed full-transcription result has a non-empty error code and a
\* non-empty hint, a successful one has neither; STT_NOT_READY is reported
\* before AUDIO_INVALID; an engine exception is reported with its type name.
C29_FailuresCarryCodeAndHint ==
    \A j \in FullReported :
        LET result == jobs[j].result IN
        /\ ~result.success =>
              /\ result.error_code \notin {None, ""}
              /\ result.error_hint \notin {None, ""}
        /\ result.success => (result.error_code = None /\ result.error_hint = None)
        /\ (jobs[j].found_not_ready \/ ~jobs[j].ready_at_call) =>
              result.error_code = "STT_NOT_READY"
        /\ jobs[j].engine_called =>
              (result.success \/ result.error_code \in {"RuntimeError", "MemoryError"})

\* C30: the result of transcribe_full carries the job_id passed to the call
\* in every outcome, so the results of two requests made with different
\* identifiers differ in their job_id.
C30_ResultCarriesJobId ==
    /\ \A j \in FullReported : jobs[j].result.job_id = jobs[j].job_id
    /\ \A j, k \in FullReported :
          jobs[j].job_id # jobs[k].job_id =>
              jobs[j].result.job_id # jobs[k].result.job_id

\* C30 witness: two full requests with different identifiers, one rejected
\* as not ready and one failed in the engine, have both reported.
C30_Witness ==
    \E j, k \in FullReported :
        /\ jobs[j].job_id = "job-a"
        /\ jobs[k].job_id = "job-b"
        /\ jobs[j].result.error_code = "STT_NOT_READY"
        /\ jobs[k].engine_called
        /\ ~jobs[k].result.success
        /\ jobs[j].calls = 1
        /\ jobs[k].calls = 1

----------------------------------------------------------------------------
(* Claims about the tracker and its controlling thread (SpecTrackerLive).  *)

\* C31: every pause(), resume() or stop() call eventually returns and a
\* worker that has fired eventually leaves _transcribe_snippet, also when
\* the snippet callback completes only once the controlling thread is free.
C31_CallsReturnAndWorkerProgresses ==
    /\ (ctrl_pc # "idle") ~> (ctrl_pc = "idle")
    /\ \A w \in WorkerIds : (workers[w] = "transcribe") ~> (workers[w] # "transcribe")

\* C32: when the threshold is reached while the STT service is not ready,
\* the worker calls the snippet callback once, with an empty transcript and
\* the hint "STT nicht bereit", dispatches no job, and nothing more is
\* reported or dispatched in that episode, also when the service becomes
\* ready later.
C32_NotReadyReportedOnce ==
    /\ [](/\ Len(reports) = errors
          /\ errors >= 1 =>
                /\ reports = <<[transcript |-> "", quality |-> "Fehler",
                                error |-> "STT nicht bereit"]>>
                /\ dispatched = 0
                /\ fires = 1)
    /\ [][/\ \A w \in WorkerIds :
                (workers[w] = "transcribe" /\ workers'[w] # "transcribe" /\ ~is_ready) =>
                    (Len(reports') = Len(reports) + 1 /\ dispatched' = dispatched)
          /\ reports' # reports =>
                \/ reports = <<>> /\ ~is_ready
                \/ reports' = <<>> /\ ~is_running /\ is_running']_vars

\* C32 witness: the error was reported, the service became ready afterwards,
\* and the worker has ticked on without dispatching anything.
C32_Witness ==
    /\ is_running
    /\ is_ready
    /\ Len(reports) = 1
    /\ dispatched = 0
    /\ ~is_paused
    /\ workers[background_thread] = "sleep"

\* the tracker's own fields and its worker threads
TrackerFields ==
    <<is_running, is_paused, cumulative_time, snippet_triggered, stop_event,
      background_thread, workers>>

\* C33: start() on a running tracker starts no worker and changes no field;
\* start() on a stopped tracker starts one worker and begins an episode with
\* counter 0, not paused and not fired.
C33_StartNoOpOrNewEpisode ==
    [][Start =>
          IF is_running
          THEN UNCHANGED TrackerFields
          ELSE /\ is_running' /\ ~is_paused' /\ ~snippet_triggered'
               /\ cumulative_time' = 0
               /\ background_thread' = background_thread + 1
               /\ workers'[background_thread'] = "check"
               /\ \A w \in WorkerIds : w # background_thread' => workers'[w] = workers[w]]_vars

\* C33 witness: the second episode has just begun on a tracker that was
\* stopped after its snippet had fired.
C33_Witness ==
    /\ background_thread = 2
    /\ is_running
    /\ cumulative_time = 0
    /\ ~is_paused /\ ~snippet_triggered
    /\ workers[2] = "check"
    /\ workers[1] = "finished"

\* C34: pause() and resume() change is_paused only: pause() sets it when
\* running and not paused, resume() clears it when running and paused, and
\* otherwise they change nothing; neither changes is_running, the counter,
\* the fired flag or the worker threads.
C34_PauseResumeOnlyPausedFlag ==
    [][/\ Pause =>
            /\ UNCHANGED <<is_running, cumulative_time, snippet_triggered, stop_event,
                           background_thread, workers>>
            /\ is_paused' = IF is_running /\ ~is_paused THEN TRUE ELSE is_paused
       /\ Resume =>
            /\ UNCHANGED <<is_running, cumulative_time, snippet_triggered, stop_event,
                           background_thread, workers>>
            /\ is_paused' = IF is_running /\ is_paused THEN FALSE ELSE is_paused]_vars

\* C34 witness: the tracker was paused below the threshold, resumed and
\* paused again; the counter stands where the worker left it.
C34_Witness ==
    /\ is_running
    /\ is_paused
    /\ paused_early
    /\ cumulative_time = 3
    /\ ~snippet_triggered
    /\ workers[background_thread] = "check"

\* C35: a worker whose episode stop() has ended never enters
\* _transcribe_snippet: only the worker of the running episode fires.
C35_StoppedWorkerNeverFires ==
    [][\A w \in WorkerIds :
          (workers[w] # "transcribe" /\ workers'[w] = "transcribe") =>
              (is_running /\ w = background_thread)]_vars

\* C36: at most one SnippetTrackerWorker thread is alive at any time.
C36_OneWorkerAlive ==
    Cardinality({w \in WorkerIds : ThreadAlive(w)}) <= 1

----------------------------------------------------------------------------
(* Claims about the buffer of the RecordingService (SpecRecording).        *)

----------------------------------------------------------------------------
(* Claims about the automaton as a graph (Spec).                           *)

\* the states one accepted call of transition() leads to from a state of S
Successors(S) ==
    {CalculateTransition(s, e) : s \in S, e \in Events} \ {None}

\* the states some sequence of calls of transition() leads to from S
RECURSIVE ReachableStates(_)
ReachableStates(S) ==
    LET T == S \cup Successors(S) IN
    IF T = S THEN S ELSE ReachableStates(T)

\* for each state, the states that can be reached from it
CanReach == [s \in AppState |-> ReachableStates({s})]

\* C38: from each of the seven states some sequence of events leads to
\* READY, every state can be reached from INIT, INIT is left only by
\* DoctorCompleted (the preflight result) and PROCESSING only by FullSTTDone
\* or FullSTTFail.
C38_NoTrapState ==
    /\ [](/\ "READY" \in CanReach[current_state]
          /\ current_state \in CanReach["INIT"]
          /\ \A s \in AppState : "READY" \in CanReach[s]
          /\ CanReach["INIT"] = AppState)
    /\ [][/\ (current_state = "INIT" /\ current_state' # "INIT") =>
                last'.event.kind = "DoctorCompleted"
          /\ (current_state = "PROCESSING" /\ current_state' # "PROCESSING") =>
                last'.event.kind \in {"FullSTTDone", "FullSTTFail"}]_vars

\* C38 witness: the session failed its preflight, left ERROR by F2 and INIT
\* by a successful preflight, and is READY.
C38_Witness ==
    /\ current_state = "READY"
    /\ last.old = "INIT"
    /\ \E i \in DOMAIN log :
          log[i] = TransitionRecord("ERROR", KeyF2Pressed, "INIT")

====
